---- MODULE Spec2Model ----
(***************************************************************************)
(* A model of sumu's gadget.py: the Gadget pipeline (candidate selection,  *)
(* score precomputation, MCMC initialisation, burn-in and sampling loop),  *)
(* the Score aggregator (sum, sample_pset, sample_DAG) and the safe local  *)
(* score query LocalScore.local.                                           *)
(*                                                                         *)
(* Numbers.  Log-scores are IEEE doubles in the code.  The model keeps the *)
(* special values the code relies on (-inf, nan, +inf) explicitly and puts *)
(* the finite values on an integer grid whose unit is log 2: a finite      *)
(* value x stands for the weight 2^x, and logaddexp / log-sum-exp are      *)
(* computed through the weights (exponentiate, add, take the logarithm)    *)
(* and rounded down to the grid, as floating point rounds to its own.      *)
(*                                                                         *)
(* Indices.  Python sequences are 0-based; TLA+ sequences are 1-based.     *)
(* At(s, i) reads element i of s in the code's numbering.                  *)
(***************************************************************************)
EXTENDS Integers, Sequences, FiniteSets, TLC

VARIABLES
    n,            \* Data.n, the number of variables
    K,            \* params["K"], size of every candidate set
    d,            \* params["d"], maximum size of a complement parent set
    C,            \* Gadget.C / Score.C: C[v] is the tuple of v's candidates
    score_array,  \* Gadget.score_array: score_array[v][mask]
    c_c_score,    \* Gadget.c_c_score: "None" or "CandidateComplementScore"
    pc,           \* position of the thread of control
    call,         \* the aggregator / oracle call in progress and its outcome
    burn_in,      \* params["burn_in"]
    iterations,   \* params["iterations"]
    thinning,     \* params["thinning"]
    mc3,          \* params["mc3"]
    mcmc,         \* Gadget.mcmc: the sampler built by _init_mcmc
    it,           \* loop variable i of the loop _run_mcmc is in
    dags,         \* Gadget.dags
    dag_scores,   \* Gadget.dag_scores
    n_sample,     \* number of invocations of self.mcmc.sample() so far
    R_cur,        \* the state returned by the latest self.mcmc.sample()
    raised        \* the exception that left Gadget.sample, or "None"

vars == <<n, K, d, C, score_array, c_c_score, pc, call, burn_in, iterations,
          thinning, mc3, mcmc, it, dags, dag_scores, n_sample, R_cur, raised>>

config == <<n, K, d, C, score_array, c_c_score>>
run == <<burn_in, iterations, thinning, mc3, mcmc, it, dags, dag_scores,
         n_sample, R_cur, raised>>

----------------------------------------------------------------------------
(* Bounds of the model. *)

MaxN == 3        \* largest number of variables
MaxD == 2        \* largest complement parent-set size d
MaxE == 2        \* largest value drawn for an Exponential(1) variate
ScoreSpan == 2   \* scorer values lie in -ScoreSpan..0
MaxBurnIn == 1      \* largest params["burn_in"]
MaxIterations == 3  \* largest params["iterations"]
MaxThinning == 2    \* largest params["thinning"]
MaxMc3 == 3         \* largest params["mc3"]

----------------------------------------------------------------------------
(* Floating-point values: finite grid values and the IEEE specials. *)

Fin(x) == [k |-> "fin", x |-> x]
NegInf == [k |-> "-inf", x |-> 0]
PosInf == [k |-> "inf", x |-> 0]
NaN == [k |-> "nan", x |-> 0]

FNeg(a) ==
    CASE a.k = "fin" -> Fin(0 - a.x)
      [] a.k = "-inf" -> PosInf
      [] a.k = "inf" -> NegInf
      [] OTHER -> NaN

FAdd(a, b) ==
    CASE a.k = "nan" \/ b.k = "nan" -> NaN
      [] a.k = "fin" /\ b.k = "fin" -> Fin(a.x + b.x)
      [] a.k = "fin" -> b
      [] b.k = "fin" -> a
      [] a.k = b.k -> a
      [] OTHER -> NaN          \* inf + -inf

FSub(a, b) == FAdd(a, FNeg(b))

\* a < b on doubles: every comparison with nan is false.
FLess(a, b) ==
    CASE a.k = "nan" \/ b.k = "nan" -> FALSE
      [] a.k = "fin" /\ b.k = "fin" -> a.x < b.x
      [] a.k = "-inf" -> b.k # "-inf"
      [] a.k = "inf" -> FALSE
      [] OTHER -> b.k = "inf"  \* a finite, b infinite

RECURSIVE Exp2(_)
Exp2(e) == IF e <= 0 THEN 1 ELSE 2 * Exp2(e - 1)

RECURSIVE FloorLog2(_)
FloorLog2(m) == IF m <= 1 THEN 0 ELSE 1 + FloorLog2(m \div 2)

Min2(a, b) == IF a <= b THEN a ELSE b

\* np.logaddexp(a, b) = log(exp(a) + exp(b)).
LogAddExp(a, b) ==
    CASE a.k = "nan" \/ b.k = "nan" -> NaN
      [] a.k = "inf" \/ b.k = "inf" -> PosInf
      [] a.k = "-inf" -> b
      [] b.k = "-inf" -> a
      [] OTHER ->
           LET m == Min2(a.x, b.x)
           IN Fin(m + FloorLog2(Exp2(a.x - m) + Exp2(b.x - m)))

RECURSIVE SumOver(_, _)
\* The sum of f[x] over the finite set S.
SumOver(S, f) ==
    IF S = {} THEN 0
    ELSE LET x == CHOOSE y \in S : TRUE
         IN f[x] + SumOver(S \ {x}, f)

SetMin(S) == CHOOSE x \in S : \A y \in S : x <= y
SetMax(S) == CHOOSE x \in S : \A y \in S : y <= x

\* log-sum-exp of the finite scores f[x], x in S; -inf over the empty set.
LogSumExp(S, f) ==
    IF S = {} THEN NegInf
    ELSE LET m == SetMin({f[x] : x \in S})
         IN Fin(m + FloorLog2(SumOver(S, [x \in S |-> Exp2(f[x] - m)])))

----------------------------------------------------------------------------
(* Variables, candidate sets, the bitset codec. *)

V == 0 .. (n - 1)
At(s, i) == s[i + 1]
Elems(s) == {s[j] : j \in 1 .. Len(s)}

\* bm(ints, idx=C[v]): bit j of the mask is set iff idx[j] is in ints.
bm(ints, idx) ==
    SumOver({j \in 0 .. (Len(idx) - 1) : At(idx, j) \in ints},
            [j \in 0 .. (Len(idx) - 1) |-> Exp2(j)])

\* bm_to_ints(mask): the positions of the set bits.
bm_to_ints(mask) ==
    {j \in 0 .. FloorLog2(mask) : (mask \div Exp2(j)) % 2 = 1}

\* mask /\ other = 0 as bit vectors.
BitsDisjoint(a, b) == bm_to_ints(a) \cap bm_to_ints(b) = {}
BitsSubset(a, b) == bm_to_ints(a) \subseteq bm_to_ints(b)

----------------------------------------------------------------------------
(* The local-score oracle. *)

\* comb(m, k)
comb(m, k) == Cardinality({S \in SUBSET (1 .. m) : Cardinality(S) = k})

\* scorer.local(v, pset) of the BDeu / BGe scorer: a fixed table of log-scores,
\* deterministic for fixed data.
scorer_local(v, pset) ==
    0 - ((v + Cardinality(pset) + SumOver(pset, [u \in pset |-> u]))
           % (ScoreSpan + 1))

\* LocalScore._precompute_prior / _prior_fair: -log(comb(n - 1, indegree)),
\* on the grid.
prior_fair(indegree) == 0 - FloorLog2(comb(n - 1, indegree))

\* LocalScore._local(v, pset)
LocalScore_local_unchecked(v, pset) ==
    scorer_local(v, pset) + prior_fair(Cardinality(pset))

Max2(a, b) == IF a >= b THEN a ELSE b

\* The safe query without the lower range test (min(...) < 0).
LocalScore_local_no_lower_bound(v, pset) ==
    IF v \in pset
    THEN [raised |-> "IndexError", ret |-> NaN]
    ELSE IF v \in 0 .. (n - 1) /\ Cardinality(pset) = 0
    THEN [raised |-> "None", ret |-> Fin(LocalScore_local_unchecked(v, pset))]
    ELSE IF pset = {}
    THEN [raised |-> "ValueError", ret |-> NaN]
    ELSE IF Max2(v, SetMax(pset)) >= n
    THEN [raised |-> "IndexError", ret |-> NaN]
    ELSE [raised |-> "None", ret |-> Fin(LocalScore_local_unchecked(v, pset))]

\* LocalScore.local(v, pset), the "safe" query: what it raises, or "None" and
\* the score it returns.  Python's min() and max() of an empty pset raise
\* ValueError.
LocalScore_local(v, pset) ==
    IF v \in pset
    THEN [raised |-> "IndexError", ret |-> NaN]
    ELSE IF v \in 0 .. (n - 1) /\ Cardinality(pset) = 0
    THEN [raised |-> "None", ret |-> Fin(LocalScore_local_unchecked(v, pset))]
    ELSE IF pset = {}
    THEN [raised |-> "ValueError", ret |-> NaN]
    ELSE IF Min2(v, SetMin(pset)) < 0 \/ Max2(v, SetMax(pset)) >= n
    THEN [raised |-> "IndexError", ret |-> NaN]
    ELSE [raised |-> "None", ret |-> Fin(LocalScore_local_unchecked(v, pset))]

\* The candidate variables a local mask of v stands for, under candidates Cv.
DecodeMask(Cv, mask) == {At(Cv, j) : j \in bm_to_ints(mask)}

\* LocalScore.all_candidate_restricted_scores(C): for every v, the score of
\* every subset of C[v], indexed by its local mask.
all_candidate_restricted_scores(Ctab) ==
    [v \in 0 .. (Len(Ctab) - 1) |->
        [mask \in 0 .. (Exp2(Len(At(Ctab, v))) - 1) |->
            LocalScore_local_unchecked(v, DecodeMask(At(Ctab, v), mask))]]

----------------------------------------------------------------------------
(* The two caches behind the aggregator. *)

\* The local masks the restricted cache ranges over for (v, U_bm, T_bm):
\* submasks of U_bm that, when T_bm # 0, share a bit with T_bm.
CRS_masks(v, U_bm, T_bm) ==
    {m \in DOMAIN score_array[v] :
        BitsSubset(m, U_bm) /\ (T_bm = 0 \/ ~BitsDisjoint(m, T_bm))}

\* CandidateRestrictedScore.sum(v, U_bm, T_bm=0)
CRS_sum(v, U_bm, T_bm) == LogSumExp(CRS_masks(v, U_bm, T_bm), score_array[v])

\* CandidateRestrictedScore.sample_pset(v, U_bm, T_bm, threshold): the masks it
\* can return; which one depends on the threshold drawn.
CRS_sample_pset(v, U_bm, T_bm) == CRS_masks(v, U_bm, T_bm)

\* The parent sets the complement cache ranges over for (v, U, T): subsets of
\* U of 1..d members that are not inside C[v] and meet T.
CCS_psets(v, U, T) ==
    {P \in SUBSET (U \ {v}) :
        /\ Cardinality(P) >= 1 /\ Cardinality(P) <= d
        /\ ~(P \subseteq Elems(At(C, v)))
        /\ P \cap T # {}}

\* CandidateComplementScore.sum(v, U, T, W_prime=-inf): W_prime augmented by
\* the complement weight.
CCS_sum(v, U, T, W_prime) ==
    LogAddExp(W_prime,
              LogSumExp(CCS_psets(v, U, T),
                        [P \in CCS_psets(v, U, T) |->
                            LocalScore_local_unchecked(v, P)]))

\* CandidateComplementScore.sample_pset(v, U, T, threshold): the (pset, score)
\* pairs it can return.
CCS_sample_pset(v, U, T) ==
    {[pset |-> P, family_score |-> Fin(LocalScore_local_unchecked(v, P))] :
        P \in CCS_psets(v, U, T)}

----------------------------------------------------------------------------
(* Score: the aggregator.  Every operation returns what the call returns   *)
(* together with the cache operations it performed: cr_calls on the        *)
(* restricted cache, cc_calls on the complement cache.                     *)

CrCall(op, v, U_bm, T_bm) == [op |-> op, v |-> v, U_bm |-> U_bm, T_bm |-> T_bm]
CcCall(op, v, U, T) == [op |-> op, v |-> v, U |-> U, T |-> T]

\* U.issubset(self.C[v])
IsSubsetOfC(U, v) == U \subseteq Elems(At(C, v))

\* W_prime with the restricted cache queried whatever T_bm is: a T that misses
\* C[v] then falls back to the unconstrained restricted sum.
sum_W_prime_always_queried(v, U, T) ==
    LET U_bm == bm(U \cap Elems(At(C, v)), At(C, v))
        T_bm == bm(T \cap Elems(At(C, v)), At(C, v))
    IN [w |-> CRS_sum(v, U_bm, T_bm),
        cr_calls |-> <<CrCall("sum", v, U_bm, T_bm)>>]

\* Score.sum, first half: W_prime and the restricted-cache queries made.
sum_W_prime(v, U, T) ==
    LET U_bm == bm(U \cap Elems(At(C, v)), At(C, v))
        T_bm == bm(T \cap Elems(At(C, v)), At(C, v))
    IN IF Cardinality(T) > 0
       THEN IF T_bm = 0
            THEN [w |-> NegInf, cr_calls |-> <<>>]
            ELSE [w |-> CRS_sum(v, U_bm, T_bm),
                  cr_calls |-> <<CrCall("sum", v, U_bm, T_bm)>>]
       ELSE [w |-> CRS_sum(v, U_bm, 0),
             cr_calls |-> <<CrCall("sum", v, U_bm, 0)>>]

\* Score.sum: the test that returns W_prime without the complement cache.
sum_returns_W_prime(v, U) == c_c_score = "None" \/ IsSubsetOfC(U, v)

\* Score.sum(v, U, T)
Score_sum(v, U, T) ==
    LET r == sum_W_prime(v, U, T)
        W_prime == r.w
    IN IF sum_returns_W_prime(v, U)
       THEN [ret |-> W_prime, cr_calls |-> r.cr_calls, cc_calls |-> <<>>]
       ELSE IF Cardinality(T) > 0
       THEN [ret |-> CCS_sum(v, U, T, W_prime), cr_calls |-> r.cr_calls,
             cc_calls |-> <<CcCall("sum", v, U, T)>>]
       ELSE [ret |-> CCS_sum(v, U, U, W_prime), cr_calls |-> r.cr_calls,
             cc_calls |-> <<CcCall("sum", v, U, U)>>]

\* np.random.exponential(): an Exponential(1) variate, which is positive.
Draws == {Fin(e) : e \in 1 .. MaxE}

\* w_crs with the restricted cache queried whatever T_bm is: a T that misses
\* C[v] then falls back to the unconstrained restricted sum.
sample_pset_w_crs_always_queried(v, U, T) ==
    LET U_bm == bm(U \cap Elems(At(C, v)), At(C, v))
        T_bm == bm(T \cap Elems(At(C, v)), At(C, v))
    IN [w |-> CRS_sum(v, U_bm, T_bm),
        cr_calls |-> <<CrCall("sum", v, U_bm, T_bm)>>]

\* Score.sample_pset, w_crs and the restricted-cache queries made.
sample_pset_w_crs(v, U, T) ==
    LET U_bm == bm(U \cap Elems(At(C, v)), At(C, v))
        T_bm == bm(T \cap Elems(At(C, v)), At(C, v))
    IN IF Cardinality(T) > 0
       THEN IF T_bm = 0
            THEN [w |-> NegInf, cr_calls |-> <<>>]
            ELSE [w |-> CRS_sum(v, U_bm, T_bm),
                  cr_calls |-> <<CrCall("sum", v, U_bm, T_bm)>>]
       ELSE [w |-> CRS_sum(v, U_bm, 0),
             cr_calls |-> <<CrCall("sum", v, U_bm, 0)>>]

\* Score.sample_pset: the test that queries the complement cache for w_ccs.
sample_pset_queries_ccs(v, U) == c_c_score # "None" /\ ~IsSubsetOfC(U, v)

\* Score.sample_pset, w_ccs and the complement-cache queries made.
sample_pset_w_ccs(v, U, T) ==
    IF sample_pset_queries_ccs(v, U)
    THEN IF Cardinality(T) > 0
         THEN [w |-> CCS_sum(v, U, T, NegInf),
               cc_calls |-> <<CcCall("sum", v, U, T)>>]
         ELSE [w |-> CCS_sum(v, U, U, NegInf),
               cc_calls |-> <<CcCall("sum", v, U, U)>>]
    ELSE [w |-> NegInf, cc_calls |-> <<>>]

\* The branch test with <= for <.
sample_pset_from_candidates_le(E, w_crs, w_ccs) ==
    ~FLess(FSub(w_crs, LogAddExp(w_ccs, w_crs)), FNeg(E))

\* Score.sample_pset: the branch test, TRUE for "sampling from candidate psets".
sample_pset_from_candidates(E, w_crs, w_ccs) ==
    FLess(FNeg(E), FSub(w_crs, LogAddExp(w_ccs, w_crs)))

\* Score.sample_pset(v, U, T): every outcome, over the exponential variate E
\* of the branch test and over what the chosen cache's sample_pset returns
\* (its threshold is w - np.random.exponential(), a second variate).
\* self.c_c_score.sample_pset on c_c_score = None raises AttributeError; a
\* complement cache asked to sample from an empty range has nothing to return.
Score_sample_pset(v, U, T) ==
    LET U_bm == bm(U \cap Elems(At(C, v)), At(C, v))
        T_bm == bm(T \cap Elems(At(C, v)), At(C, v))
        r == sample_pset_w_crs(v, U, T)
        c == sample_pset_w_ccs(v, U, T)
        base(E) == [raised |-> "None", E |-> E, w_crs |-> r.w, w_ccs |-> c.w,
                    branch |-> "None", pset_bm |-> 0,
                    family |-> [v |-> v, pset |-> {}], family_score |-> NaN,
                    cr_calls |-> r.cr_calls, cc_calls |-> c.cc_calls]
        TT == IF Cardinality(T) > 0 THEN T ELSE U
    IN UNION {
         IF sample_pset_from_candidates(E, r.w, c.w)
         THEN {[base(E) EXCEPT
                  !.branch = "candidates",
                  !.pset_bm = pset,
                  !.family_score = Fin(score_array[v][pset]),
                  !.family = [v |-> v,
                              pset |-> {At(At(C, v), i) : i \in bm_to_ints(pset)}],
                  !.cr_calls = @ \o <<CrCall("sample_pset", v, U_bm, T_bm)>>] :
                 pset \in CRS_sample_pset(v, U_bm, T_bm)}
         ELSE IF c_c_score = "None"
         THEN {[base(E) EXCEPT !.branch = "complement",
                               !.raised = "AttributeError"]}
         ELSE IF CCS_sample_pset(v, U, TT) = {}
         THEN {[base(E) EXCEPT !.branch = "complement",
                               !.raised = "NothingToSample"]}
         ELSE {[base(E) EXCEPT
                  !.branch = "complement",
                  !.family_score = s.family_score,
                  !.family = [v |-> v, pset |-> s.pset],
                  !.cc_calls = @ \o <<CcCall("sample_pset", v, U, TT)>>] :
                 s \in CCS_sample_pset(v, U, TT)}
         : E \in Draws }

\* Score.sample_DAG: the index i the inner loop leaves for v (the first block
\* holding v; the last index when no block holds v).
sample_DAG_block(R, v) ==
    IF \E j \in 0 .. (Len(R) - 1) : v \in At(R, j)
    THEN SetMin({j \in 0 .. (Len(R) - 1) : v \in At(R, j)})
    ELSE Len(R) - 1

\* The slice taken one block too far: R[:i+1].
sample_DAG_U_own_block(R, i) == UNION {At(R, j) : j \in 0 .. i}

\* U = set().union(*R[:i])
sample_DAG_U(R, i) == UNION {At(R, j) : j \in 0 .. (i - 1)}

\* T taken from the first block whatever i is: R[0].
sample_DAG_T_first_block(R, i) == At(R, 0)

\* T = R[i-1]
sample_DAG_T(R, i) == At(R, i - 1)

\* The total overwritten instead of accumulated: DAG_score = family_score.
sample_DAG_overwrite(DAG_score, family_score) == family_score

\* DAG_score += family_score
sample_DAG_accumulate(DAG_score, family_score) == FAdd(DAG_score, family_score)

\* One family of the DAG being built, with how it was obtained.
NodeStep(v, i, op, U, T, family, family_score, cr_calls, cc_calls) ==
    [v |-> v, i |-> i, op |-> op, U |-> U, T |-> T, family |-> family,
     family_score |-> family_score, cr_calls |-> cr_calls, cc_calls |-> cc_calls]

RECURSIVE sample_DAG_loop(_, _, _, _, _)
\* Score.sample_DAG, the loop from variable v on: every outcome.  An exception
\* in sample_pset leaves the loop and the call.
sample_DAG_loop(v, R, DAG, DAG_score, steps) ==
    IF v >= n
    THEN {[raised |-> "None", DAG |-> DAG, DAG_score |-> DAG_score, steps |-> steps]}
    ELSE LET i == sample_DAG_block(R, v)
         IN IF i = 0
            THEN LET family == [v |-> v, pset |-> {}]
                     s == Score_sum(v, {}, {})
                     family_score == s.ret
                 IN sample_DAG_loop(v + 1, R, Append(DAG, family),
                        sample_DAG_accumulate(DAG_score, family_score),
                        Append(steps, NodeStep(v, i, "sum", {}, {}, family,
                                   family_score, s.cr_calls, s.cc_calls)))
            ELSE LET U == sample_DAG_U(R, i)
                     T == sample_DAG_T(R, i)
                 IN UNION {
                      IF o.raised # "None"
                      THEN {[raised |-> o.raised, DAG |-> DAG,
                             DAG_score |-> DAG_score,
                             steps |-> Append(steps, NodeStep(v, i, "sample_pset",
                                          U, T, o.family, o.family_score,
                                          o.cr_calls, o.cc_calls))]}
                      ELSE sample_DAG_loop(v + 1, R, Append(DAG, o.family),
                               sample_DAG_accumulate(DAG_score, o.family_score),
                               Append(steps, NodeStep(v, i, "sample_pset", U, T,
                                          o.family, o.family_score,
                                          o.cr_calls, o.cc_calls)))
                      : o \in Score_sample_pset(v, U, T) }

\* Score.sample_DAG(R)
Score_sample_DAG(R) == sample_DAG_loop(0, R, <<>>, Fin(0), <<>>)

----------------------------------------------------------------------------
(* Ordered partitions and candidate tables: the inputs. *)

\* The ordered partitions of 0..m-1: sequences of pairwise-disjoint non-empty
\* blocks covering 0..m-1 (the states of PartitionMCMC).
OrderedPartitions(m) ==
    {[j \in 1 .. (SetMax({f[v] : v \in 0 .. (m - 1)}) + 1) |->
         {v \in 0 .. (m - 1) : f[v] = j - 1}] :
       f \in {g \in [0 .. (m - 1) -> 0 .. (m - 1)] :
                \A b \in 0 .. SetMax({g[v] : v \in 0 .. (m - 1)}) :
                    \E v \in 0 .. (m - 1) : g[v] = b}}

\* The k variables after v, cyclically, skipping v: v+1, v+2, ...
CandAfter(m, k, v) == [j \in 1 .. k |-> (v + j) % m]
\* The k variables before v, cyclically: v-1, v-2, ...
CandBefore(m, k, v) == [j \in 1 .. k |-> (v + m - j) % m]
\* The k smallest other variables, largest first.
CandLow(m, k, v) ==
    [j \in 1 .. k |-> LET x == k - j IN IF x < v THEN x ELSE x + 1]

\* Candidate tables the candidate-parent algorithm can produce for m variables
\* and K = k: every C[v] holds k distinct variables other than v.
CandidateTables(m, k) ==
    { [v \in 1 .. m |-> CandAfter(m, k, v - 1)],
      [v \in 1 .. m |-> CandBefore(m, k, v - 1)],
      [v \in 1 .. m |-> CandLow(m, k, v - 1)] }

----------------------------------------------------------------------------
(* Gadget: the stages of the pipeline. *)

\* The setup test off by one: K <= n - 1.
precompute_candidate_complement_scoring_le(k, m) ==
    IF k <= m - 1 THEN "CandidateComplementScore" ELSE "None"

\* Gadget._precompute_candidate_complement_scoring: self.c_c_score.
precompute_candidate_complement_scoring(k, m) ==
    IF k < m - 1 THEN "CandidateComplementScore" ELSE "None"

NoCall == [op |-> "None"]

\* The run variables before Gadget.sample has started.
RunIdle ==
    /\ burn_in = 0 /\ iterations = 0 /\ thinning = 1 /\ mc3 = 1
    /\ mcmc = <<>> /\ it = 0 /\ dags = <<>> /\ dag_scores = <<>>
    /\ n_sample = 0 /\ R_cur = <<>> /\ raised = "None"

----------------------------------------------------------------------------
(* Specification SpecScore: a Score object as Gadget._init_mcmc builds it, *)
(* queried through sum, sample_pset and sample_DAG, and the LocalScore     *)
(* oracle over the same data, queried through local.                       *)

InitScore ==
    /\ n \in 2 .. MaxN
    /\ K \in 1 .. (n - 1)
    /\ d \in 1 .. Min2(MaxD, n - 1)
    /\ C \in CandidateTables(n, K)
    /\ score_array = all_candidate_restricted_scores(C)
    /\ c_c_score = precompute_candidate_complement_scoring(K, n)
    /\ pc = "idle"
    /\ call = NoCall
    /\ RunIdle

\* A caller evaluates Score.sum(v, U, T), T within U, v outside U.
CallSum ==
    /\ pc = "idle"
    /\ \E v \in V : \E U \in SUBSET (V \ {v}) : \E T \in SUBSET U :
          call' = [op |-> "sum", v |-> v, U |-> U, T |-> T,
                   out |-> Score_sum(v, U, T)]
    /\ pc' = "returned"
    /\ UNCHANGED <<config, run>>

\* A caller evaluates Score.sample_pset(v, U, T).
CallSamplePset ==
    /\ pc = "idle"
    /\ \E v \in V : \E U \in SUBSET (V \ {v}) : \E T \in SUBSET U :
          \E o \in Score_sample_pset(v, U, T) :
             call' = [op |-> "sample_pset", v |-> v, U |-> U, T |-> T, out |-> o]
    /\ pc' = "returned"
    /\ UNCHANGED <<config, run>>

\* A caller evaluates Score.sample_DAG(R) on an ordered partition R.
CallSampleDAG ==
    /\ pc = "idle"
    /\ \E R \in OrderedPartitions(n) : \E o \in Score_sample_DAG(R) :
          call' = [op |-> "sample_DAG", R |-> R, out |-> o]
    /\ pc' = "returned"
    /\ UNCHANGED <<config, run>>

\* A caller evaluates LocalScore.local(v, pset) on any integers near 0..n-1.
CallLocal ==
    /\ pc = "idle"
    /\ \E v \in -1 .. n : \E pset \in SUBSET (-1 .. n) :
          call' = [op |-> "local", v |-> v, pset |-> pset,
                   out |-> LocalScore_local(v, pset)]
    /\ pc' = "returned"
    /\ UNCHANGED <<config, run>>

\* The caller takes the result; the Score object is ready for the next call.
Return ==
    /\ pc = "returned"
    /\ pc' = "idle"
    /\ call' = NoCall
    /\ UNCHANGED <<config, run>>

NextScore == CallSum \/ CallSamplePset \/ CallSampleDAG \/ CallLocal \/ Return

SpecScore == InitScore /\ [][NextScore]_vars

----------------------------------------------------------------------------
(* Specification SpecRun: one call of Gadget.sample().                     *)
(* pc names the step the call is about to execute; "done" is the return of *)
(* (dags, dag_scores), "raised" an exception leaving sample().  call holds *)
(* the step executed last and the exception it threw, if any.              *)

\* Exceptions a stage can throw: the invalid-query IndexError of
\* LocalScore.local, and any other error of a collaborator.
Errors == {"IndexError", "RuntimeError"}

Step(op, err) == [op |-> op, err |-> err]

\* A handler that swallows the exception and leaves the step to be run again.
Propagate_retry(e) == pc' = pc /\ raised' = raised

\* Gadget.sample and Gadget._run_mcmc hold no try/except: an exception thrown
\* by a step leaves sample() as it is, and nothing of the call runs after it.
Propagate(e) == pc' = "raised" /\ raised' = e

\* The temperature divided by mc3 instead of mc3 - 1.
Temperature_over_mc3(i, M) == [num |-> i, den |-> M]

\* Temperature i/(mc3-1) of chain i, as a fraction.
Temperature(i, M) == [num |-> i, den |-> M - 1]

\* Gadget._init_mcmc: self.mcmc for params["mc3"] = M.  A PartitionMCMC built
\* without a temperature runs at its default, the target temperature 1.
init_mcmc(M) ==
    IF M > 1
    THEN [kind |-> "MC3",
          chains |-> [j \in 1 .. M |-> [temperature |-> Temperature(j - 1, M)]]]
    ELSE [kind |-> "PartitionMCMC",
          chains |-> <<[temperature |-> [num |-> 1, den |-> 1]]>>]

\* The ordered partitions self.mcmc.sample()[0] returns in a run: the sampler
\* moves between the one-block partition and the two-block partition that
\* puts variable 0 first.
mcmc_sample(m) ==
    { <<0 .. (m - 1)>>,
      <<{0}, 1 .. (m - 1)>> }

\* The burn-in loop running one iteration too many: range(burn_in + 1).
burn_in_runs_inclusive(i) == i <= burn_in

\* for i in range(self.params["burn_in"]): the loop body runs for i.
burn_in_runs(i) == i < burn_in

\* for i in range(self.params["iterations"]): the loop body runs for i.
iterations_runs(i) == i < iterations

\* The thinning test on the last iteration of each interval instead of the
\* first: (i + 1) % thinning == 0.
thinning_keeps_last(i, th) == (i + 1) % th = 0

\* i % self.params["thinning"] == 0
thinning_keeps(i, th) == i % th = 0

InitRun ==
    /\ n \in 2 .. MaxN
    /\ K \in 1 .. (n - 1)
    /\ d = Min2(MaxD, n - 1)
    /\ burn_in \in 0 .. MaxBurnIn
    /\ iterations \in 0 .. MaxIterations
    /\ thinning \in 1 .. MaxThinning
    /\ mc3 \in 0 .. MaxMc3
    /\ C = <<>> /\ score_array = <<>> /\ c_c_score = "unset"
    /\ mcmc = <<>> /\ it = 0 /\ dags = <<>> /\ dag_scores = <<>>
    /\ n_sample = 0 /\ R_cur = <<>> /\ raised = "None"
    /\ pc = "find_candidate_parents"
    /\ call = Step("None", "None")

params == <<n, K, d, burn_in, iterations, thinning, mc3>>

\* self._find_candidate_parents()
FindCandidateParents ==
    /\ pc = "find_candidate_parents"
    /\ \/ /\ C' \in CandidateTables(n, K)
          /\ pc' = "precompute_scores"
          /\ call' = Step("find_candidate_parents", "None")
          /\ UNCHANGED raised
       \/ \E e \in Errors :
             /\ call' = Step("find_candidate_parents", e)
             /\ Propagate(e)
             /\ UNCHANGED C
    /\ UNCHANGED <<params, score_array, c_c_score, mcmc, it, dags, dag_scores,
                   n_sample, R_cur>>

\* self._precompute_scores_for_all_candidate_psets()
PrecomputeScores ==
    /\ pc = "precompute_scores"
    /\ \/ /\ score_array' = all_candidate_restricted_scores(C)
          /\ pc' = "precompute_crs"
          /\ call' = Step("precompute_scores", "None")
          /\ UNCHANGED raised
       \/ \E e \in Errors :
             /\ call' = Step("precompute_scores", e)
             /\ Propagate(e)
             /\ UNCHANGED score_array
    /\ UNCHANGED <<params, C, c_c_score, mcmc, it, dags, dag_scores,
                   n_sample, R_cur>>

\* self._precompute_candidate_restricted_scoring(): builds self.c_r_score, the
\* restricted cache over score_array and C.
PrecomputeCandidateRestrictedScoring ==
    /\ pc = "precompute_crs"
    /\ \/ /\ pc' = "precompute_ccs"
          /\ call' = Step("precompute_crs", "None")
          /\ UNCHANGED raised
       \/ \E e \in Errors :
             /\ call' = Step("precompute_crs", e)
             /\ Propagate(e)
    /\ UNCHANGED <<params, C, score_array, c_c_score, mcmc, it, dags,
                   dag_scores, n_sample, R_cur>>

\* self._precompute_candidate_complement_scoring()
PrecomputeCandidateComplementScoring ==
    /\ pc = "precompute_ccs"
    /\ \/ /\ c_c_score' = precompute_candidate_complement_scoring(K, n)
          /\ pc' = "init_mcmc"
          /\ call' = Step("precompute_ccs", "None")
          /\ UNCHANGED raised
       \/ \E e \in Errors :
             /\ call' = Step("precompute_ccs", e)
             /\ Propagate(e)
             /\ c_c_score' = "None"
    /\ UNCHANGED <<params, C, score_array, mcmc, it, dags, dag_scores,
                   n_sample, R_cur>>

\* self._init_mcmc(), then the head of self._run_mcmc(): the two lists are
\* created empty.
InitMcmc ==
    /\ pc = "init_mcmc"
    /\ \/ /\ mcmc' = init_mcmc(mc3)
          /\ pc' = "burn_in"
          /\ call' = Step("init_mcmc", "None")
          /\ UNCHANGED raised
       \/ \E e \in Errors :
             /\ call' = Step("init_mcmc", e)
             /\ Propagate(e)
             /\ UNCHANGED mcmc
    /\ it' = 0 /\ dags' = <<>> /\ dag_scores' = <<>>
    /\ UNCHANGED <<params, C, score_array, c_c_score, n_sample, R_cur>>

\* One iteration of "for i in range(burn_in)": self.mcmc.sample()[0].
BurnInIteration ==
    /\ pc = "burn_in"
    /\ burn_in_runs(it)
    /\ \/ /\ R_cur' \in mcmc_sample(n)
          /\ n_sample' = n_sample + 1
          /\ it' = it + 1
          /\ call' = Step("burn_in", "None")
          /\ UNCHANGED <<pc, raised>>
       \/ \E e \in Errors :
             /\ call' = Step("burn_in", e)
             /\ Propagate(e)
             /\ n_sample' = n_sample + 1
             /\ UNCHANGED <<R_cur, it>>
    /\ UNCHANGED <<params, C, score_array, c_c_score, mcmc, dags, dag_scores>>

\* The burn-in loop is exhausted; the sampling loop starts at i = 0.
BurnInDone ==
    /\ pc = "burn_in"
    /\ ~burn_in_runs(it)
    /\ pc' = "sampling"
    /\ it' = 0
    /\ call' = Step("burn_in_done", "None")
    /\ UNCHANGED <<params, C, score_array, c_c_score, mcmc, dags, dag_scores,
                   n_sample, R_cur, raised>>

\* One iteration of "for i in range(iterations)".
SamplingIteration ==
    /\ pc = "sampling"
    /\ iterations_runs(it)
    /\ \/ /\ thinning_keeps(it, thinning)
          /\ \E R \in mcmc_sample(n) : \E o \in Score_sample_DAG(R) :
                /\ R_cur' = R
                /\ \/ /\ o.raised = "None"
                      /\ dags' = Append(dags, o.DAG)
                      /\ dag_scores' = Append(dag_scores, o.DAG_score)
                      /\ it' = it + 1
                      /\ call' = Step("sampling", "None")
                      /\ UNCHANGED <<pc, raised>>
                   \/ /\ o.raised # "None"
                      /\ call' = Step("sampling", o.raised)
                      /\ Propagate(o.raised)
                      /\ UNCHANGED <<dags, dag_scores, it>>
          /\ n_sample' = n_sample + 1
       \/ /\ ~thinning_keeps(it, thinning)
          /\ R_cur' \in mcmc_sample(n)
          /\ n_sample' = n_sample + 1
          /\ it' = it + 1
          /\ call' = Step("sampling", "None")
          /\ UNCHANGED <<pc, raised, dags, dag_scores>>
       \/ \E e \in Errors :
             /\ call' = Step("sampling", e)
             /\ Propagate(e)
             /\ n_sample' = n_sample + 1
             /\ UNCHANGED <<R_cur, it, dags, dag_scores>>
    /\ UNCHANGED <<params, C, score_array, c_c_score, mcmc>>

\* The sampling loop is exhausted: _run_mcmc returns and sample() returns
\* self.dags, self.dag_scores.
SampleReturn ==
    /\ pc = "sampling"
    /\ ~iterations_runs(it)
    /\ pc' = "done"
    /\ call' = Step("return", "None")
    /\ UNCHANGED <<params, C, score_array, c_c_score, mcmc, it, dags,
                   dag_scores, n_sample, R_cur, raised>>

NextRun ==
    \/ FindCandidateParents
    \/ PrecomputeScores
    \/ PrecomputeCandidateRestrictedScoring
    \/ PrecomputeCandidateComplementScoring
    \/ InitMcmc
    \/ BurnInIteration
    \/ BurnInDone
    \/ SamplingIteration
    \/ SampleReturn

SpecRun == InitRun /\ [][NextRun]_vars

----------------------------------------------------------------------------
(* Properties of Score.sample_DAG, under SpecScore. *)

ReturnedDAG == pc = "returned" /\ call.op = "sample_DAG" /\ call.out.raised = "None"

\* A valid ordered partition of the n variables.
ValidPartition(R) ==
    /\ Len(R) >= 1
    /\ \A j \in 1 .. Len(R) : R[j] # {} /\ R[j] \subseteq V
    /\ \A j, k \in 1 .. Len(R) : j # k => R[j] \cap R[k] = {}
    /\ UNION {R[j] : j \in 1 .. Len(R)} = V

\* The index of the block of R holding v.
BlockOf(R, v) == CHOOSE j \in 0 .. (Len(R) - 1) : v \in At(R, j)

\* The parent relation of DAG has no cycle: the variables can be ranked so
\* that every parent ranks below its child.
Acyclic(DAG) ==
    \E rank \in [V -> 0 .. (n - 1)] :
        \A j \in 1 .. Len(DAG) : \A u \in DAG[j].pset : rank[u] < rank[DAG[j].v]

\* C1: for every valid ordered partition R, the parent assignment sample_DAG(R)
\* returns respects R's block order: every parent of a node in block i lies in
\* a block before i, a node in a block i > 0 has a parent in block i-1, a node
\* in block 0 has no parent; the induced graph is acyclic.
C1_BlockOrder ==
    ReturnedDAG =>
        LET R == call.R
            DAG == call.out.DAG
        IN /\ ValidPartition(R)
           /\ \A j \in 1 .. Len(DAG) :
                 LET v == DAG[j].v
                     i == BlockOf(R, v)
                 IN /\ \A u \in DAG[j].pset : u \in V /\ BlockOf(R, u) < i
                    /\ i > 0 => DAG[j].pset \cap At(R, i - 1) # {}
                    /\ i = 0 => DAG[j].pset = {}
           /\ Acyclic(DAG)

\* A DAG returned for a partition of three blocks or more, with one family
\* sampled from the candidate psets and one from the complement psets.
C1_Witness ==
    /\ ReturnedDAG
    /\ Len(call.R) >= 3
    /\ \E j \in 1 .. Len(call.out.steps) :
          /\ call.out.steps[j].cc_calls # <<>>
          /\ call.out.steps[j].cc_calls[Len(call.out.steps[j].cc_calls)].op = "sample_pset"
    /\ \E j \in 1 .. Len(call.out.steps) :
          /\ call.out.steps[j].cr_calls # <<>>
          /\ call.out.steps[j].cr_calls[Len(call.out.steps[j].cr_calls)].op = "sample_pset"

RECURSIVE FSumSeq(_)
\* The float sum of a sequence, from 0.
FSumSeq(q) == IF q = <<>> THEN Fin(0) ELSE FAdd(FSumSeq(SubSeq(q, 1, Len(q) - 1)), q[Len(q)])

\* C2: the total score sample_DAG(R) returns is the sum over all n variables
\* of the family scores obtained during the call (the score of the empty parent
\* set, sum(v, {}, {}), for a node of block 0; the score sample_pset returned for
\* any other node), and the DAG holds exactly one family per variable 0..n-1.
C2_TotalScore ==
    ReturnedDAG =>
        LET DAG == call.out.DAG
            steps == call.out.steps
        IN /\ Len(DAG) = n /\ Len(steps) = n
           /\ \A j \in 1 .. n : DAG[j].v = j - 1 /\ steps[j].family = DAG[j]
           /\ \A j \in 1 .. n :
                 IF BlockOf(call.R, j - 1) = 0
                 THEN /\ steps[j].op = "sum"
                      /\ steps[j].family_score = Fin(score_array[j - 1][0])
                 ELSE /\ steps[j].op = "sample_pset"
                      /\ steps[j].family_score =
                            Fin(LocalScore_local_unchecked(j - 1, DAG[j].pset))
           /\ call.out.DAG_score = FSumSeq([j \in 1 .. n |-> steps[j].family_score])

\* A DAG returned with at least two sampled families of non-zero score.
C2_Witness ==
    /\ ReturnedDAG
    /\ Cardinality({j \in 1 .. Len(call.out.steps) :
                      /\ call.out.steps[j].op = "sample_pset"
                      /\ call.out.steps[j].family_score # Fin(0)}) >= 2
    /\ \E j \in 1 .. Len(call.out.steps) : call.out.steps[j].op = "sum"

----------------------------------------------------------------------------
(* Properties of Score.sum, under SpecScore. *)

ReturnedSum == pc = "returned" /\ call.op = "sum"

\* The weight of the parent sets of v inside U and inside C[v] that meet T
\* (when T is not empty), from the local scores.
WeightInCandidates(v, U, T) ==
    LET psets == {P \in SUBSET (U \cap Elems(At(C, v))) : T = {} \/ P \cap T # {}}
    IN LogSumExp(psets, [P \in psets |-> LocalScore_local_unchecked(v, P)])

\* The weight of the parent sets of v inside U of at most d members that are
\* not inside C[v] and meet T (when T is not empty).
WeightInComplement(v, U, T) ==
    LET psets == {P \in SUBSET (U \ {v}) :
                     /\ Cardinality(P) <= d
                     /\ ~(P \subseteq Elems(At(C, v)))
                     /\ T = {} \/ P \cap T # {}}
    IN LogSumExp(psets, [P \in psets |-> LocalScore_local_unchecked(v, P)])

\* T is not empty and has no member in C[v].
TMissesC(v, T) == T # {} /\ T \cap Elems(At(C, v)) = {}

\* The one query of the restricted cache for U and T restricted to C[v].
RestrictedQuery(v, U, T) ==
    <<CrCall("sum", v, bm(U \cap Elems(At(C, v)), At(C, v)),
             bm(T \cap Elems(At(C, v)), At(C, v)))>>

\* C4 as stated: sum(v, U, T) restricts U and T to C[v] and queries the
\* restricted cache for W_restricted, in every case; it returns W_restricted
\* without querying the complement cache if that cache is absent or U is inside
\* C[v], and logaddexp(W_restricted, W_complement) otherwise.
C4_AsStated ==
    ReturnedSum =>
        LET v == call.v
            U == call.U
            T == call.T
            W_restricted == CRS_sum(v, bm(U \cap Elems(At(C, v)), At(C, v)),
                                    bm(T \cap Elems(At(C, v)), At(C, v)))
        IN /\ call.out.cr_calls = RestrictedQuery(v, U, T)
           /\ IF c_c_score = "None" \/ U \subseteq Elems(At(C, v))
              THEN call.out.ret = W_restricted /\ call.out.cc_calls = <<>>
              ELSE /\ call.out.ret =
                        LogAddExp(W_restricted, WeightInComplement(v, U, T))
                   /\ Len(call.out.cc_calls) = 1

\* C4, amended: sum(v, U, T) restricts U and T to C[v] and queries the
\* restricted cache for W_restricted, except that for a non-empty T with no
\* member in C[v] it takes W_restricted = -inf without a query; W_restricted is
\* the weight of the parent sets inside U and C[v] meeting T.  It returns
\* W_restricted without querying the complement cache if that cache is absent
\* or U is inside C[v], and logaddexp(W_restricted, W_complement) after one
\* complement query otherwise.
C4_Sum ==
    ReturnedSum =>
        LET v == call.v
            U == call.U
            T == call.T
            W_restricted == WeightInCandidates(v, U, T)
        IN /\ call.out.cr_calls =
                 IF TMissesC(v, T) THEN <<>> ELSE RestrictedQuery(v, U, T)
           /\ TMissesC(v, T) => W_restricted = NegInf
           /\ IF c_c_score = "None" \/ U \subseteq Elems(At(C, v))
              THEN call.out.ret = W_restricted /\ call.out.cc_calls = <<>>
              ELSE /\ call.out.ret =
                        LogAddExp(W_restricted, WeightInComplement(v, U, T))
                   /\ Len(call.out.cc_calls) = 1
                   /\ call.out.cc_calls[1].op = "sum"

\* sum returned for a T that misses C[v], with U reaching outside C[v] and a
\* complement cache: the restricted cache was not queried, the complement was.
C4_Witness ==
    /\ ReturnedSum
    /\ TMissesC(call.v, call.T)
    /\ call.out.cr_calls = <<>>
    /\ call.out.cc_calls # <<>>
    /\ call.out.ret.k = "fin"

----------------------------------------------------------------------------
(* Properties of Score.sample_pset and of the complement cache, under      *)
(* SpecScore.                                                              *)

ReturnedSamplePset == pc = "returned" /\ call.op = "sample_pset"

\* The complement-cache operations of the call that has returned, attempted
\* ones (on c_c_score = None) included.
ComplementOperations ==
    CASE call.op = "sum" -> Len(call.out.cc_calls)
      [] call.op = "sample_pset" ->
           Len(call.out.cc_calls)
             + (IF call.out.branch = "complement" /\ call.out.raised # "None"
                THEN 1 ELSE 0)
      [] call.op = "sample_DAG" ->
           SumOver(1 .. Len(call.out.steps),
                   [j \in 1 .. Len(call.out.steps) |->
                       Len(call.out.steps[j].cc_calls)])
             + (IF call.out.raised # "None" THEN 1 ELSE 0)
      [] OTHER -> 0

C6_BranchChoice ==
    (ReturnedSamplePset /\ call.out.raised = "None") =>
        LET v == call.v
            U == call.U
            T == call.T
            o == call.out
            W_restricted == sum_W_prime(v, U, T).w
            W_complement ==
                IF sum_returns_W_prime(v, U) THEN NegInf
                ELSE WeightInComplement(v, U, T)
            restricted ==
                FLess(FNeg(o.E),
                      FSub(W_restricted, LogAddExp(W_restricted, W_complement)))
        IN /\ o.E.k = "fin" /\ o.E.x > 0
           /\ o.w_crs = W_restricted /\ o.w_ccs = W_complement
           /\ (o.branch = "candidates") <=> restricted
           /\ (o.branch = "complement") <=> ~restricted
           /\ o.branch = "candidates" =>
                 /\ o.cr_calls[Len(o.cr_calls)].op = "sample_pset"
                 /\ o.family = [v |-> v, pset |-> DecodeMask(At(C, v), o.pset_bm)]
                 /\ o.family_score = Fin(score_array[v][o.pset_bm])
           /\ o.branch = "complement" =>
                 /\ o.cc_calls[Len(o.cc_calls)].op = "sample_pset"
                 /\ [pset |-> o.family.pset, family_score |-> o.family_score]
                       \in CCS_sample_pset(v, U, IF T = {} THEN U ELSE T)

\* sample_pset took the complement branch with both weights finite and the
\* variate on the boundary: -E equals W_restricted - logaddexp(...).
C6_Witness ==
    /\ ReturnedSamplePset
    /\ call.out.raised = "None"
    /\ call.out.branch = "complement"
    /\ call.out.w_crs.k = "fin" /\ call.out.w_ccs.k = "fin"
    /\ FNeg(call.out.E) =
          FSub(call.out.w_crs, LogAddExp(call.out.w_crs, call.out.w_ccs))

----------------------------------------------------------------------------
(* Properties of LocalScore.local, under SpecScore. *)

ReturnedLocal == pc = "returned" /\ call.op = "local"

\* The query (v, P) is invalid: v is in P, or v or a member of P is outside
\* 0..n-1.
InvalidQuery(v, P) ==
    \/ v \in P
    \/ v < 0 \/ v >= n
    \/ \E u \in P : u < 0 \/ u >= n

\* C7: local(v, P) fails with an error and returns no score whenever v is in
\* P, or v or a member of P is outside [0, n) (an out-of-range v with an empty
\* P included); for every valid query it returns the underlying score.
C7_InvalidQueryFails ==
    ReturnedLocal =>
        IF InvalidQuery(call.v, call.pset)
        THEN /\ call.out.raised \in {"IndexError", "ValueError"}
             /\ call.out.ret.k # "fin"
        ELSE /\ call.out.raised = "None"
             /\ call.out.ret =
                   Fin(scorer_local(call.v, call.pset)
                         + prior_fair(Cardinality(call.pset)))

\* local was queried with an out-of-range v and an empty parent set, and
\* failed.
C7_Witness ==
    /\ ReturnedLocal
    /\ call.pset = {}
    /\ call.v >= n
    /\ call.out.raised # "None"

----------------------------------------------------------------------------
(* Properties of Gadget.sample and Gadget._run_mcmc, under SpecRun. *)

\* ceil(a / b) for b > 0
CeilDiv(a, b) == (a + b - 1) \div b

BeforeRunMcmc ==
    pc \in {"find_candidate_parents", "precompute_scores", "precompute_crs",
            "precompute_ccs", "init_mcmc"}

\* The total log-score of a DAG: the sum of the local scores of its families.
TotalLogScore(DAG) ==
    FSumSeq([j \in 1 .. Len(DAG) |->
                Fin(LocalScore_local_unchecked(DAG[j].v, DAG[j].pset))])

\* C3: a sampling run outputs (DAG, total log-score) pairs in order, one per
\* thinned iteration after burn-in: none before or during burn-in, one for
\* sampling iteration i exactly when i % thinning = 0 (so ceil(i / thinning)
\* pairs after i iterations and ceil(iterations / thinning) at the end), and
\* the two lists always have the same length.
C3_ThinnedOutput ==
    /\ Len(dags) = Len(dag_scores)
    /\ \A k \in 1 .. Len(dags) : dag_scores[k] = TotalLogScore(dags[k])
    /\ (BeforeRunMcmc \/ pc = "burn_in") => Len(dags) = 0
    /\ pc = "sampling" => Len(dags) = CeilDiv(it, thinning)
    /\ pc = "done" => Len(dags) = CeilDiv(iterations, thinning)

\* A finished run with burn-in, three iterations thinned by two: two pairs.
C3_Witness ==
    /\ pc = "done"
    /\ burn_in >= 1 /\ iterations = 3 /\ thinning = 2
    /\ Len(dags) = 2 /\ Len(dag_scores) = 2
    /\ dags[1] # dags[2]

\* C8: an error raised in any stage of Gadget.sample (candidate selection,
\* the precomputations, MCMC initialisation, burn-in or sampling iterations)
\* is fatal to the run: it leaves sample() unchanged, no step runs after it
\* (no retry, no later stage or iteration), and sample() returns no result.
C8_ErrorsFatal ==
    /\ [](/\ call.err # "None" => (pc = "raised" /\ raised = call.err)
          /\ pc = "raised" => (raised # "None" /\ raised = call.err)
          /\ pc = "done" => (raised = "None" /\ call.err = "None"))
    /\ [][pc # "raised" /\ (pc' = "done" => call'.err = "None")]_vars

\* A sampling iteration failed after a pair had been emitted.
C8_Witness ==
    /\ pc = "raised"
    /\ call.op = "sampling"
    /\ raised = "IndexError"
    /\ Len(dags) >= 1
    /\ it < iterations

\* a < b for fractions with positive denominators
FracLess(a, b) == a.num * b.den < b.num * a.den

\* C9: for M = mc3 > 1, _init_mcmc creates exactly M partition samplers with
\* strictly increasing temperatures, the first 0, the last 1, chain i at
\* i/(M-1); for mc3 <= 1 it creates a single partition sampler, no ensemble.
C9_Temperatures ==
    mcmc # <<>> =>
        IF mc3 > 1
        THEN /\ mcmc.kind = "MC3"
             /\ Len(mcmc.chains) = mc3
             /\ \A j \in 1 .. mc3 :
                   /\ mcmc.chains[j].temperature.den > 0
                   /\ mcmc.chains[j].temperature.num * (mc3 - 1)
                        = (j - 1) * mcmc.chains[j].temperature.den
             /\ mcmc.chains[1].temperature.num = 0
             /\ mcmc.chains[mc3].temperature.num = mcmc.chains[mc3].temperature.den
             /\ \A j \in 1 .. (mc3 - 1) :
                   FracLess(mcmc.chains[j].temperature, mcmc.chains[j + 1].temperature)
        ELSE /\ mcmc.kind = "PartitionMCMC"
             /\ Len(mcmc.chains) = 1

\* An ensemble of three chains or more: one strictly between 0 and 1.
C9_Witness ==
    /\ mcmc # <<>>
    /\ mcmc.kind = "MC3"
    /\ Len(mcmc.chains) >= 3
    /\ pc = "sampling"

\* C10: the loop runs burn-in iterations, then sampling iterations, and ends
\* after the configured count: self.mcmc.sample() is invoked once per
\* iteration, thinned or not, burn_in + iterations times in all, every burn-in
\* invocation before every sampling one, and each emitted DAG is drawn from the
\* state the invocation of its own iteration returned.
C10_FixedCount ==
    /\ [](/\ BeforeRunMcmc => n_sample = 0
          /\ pc = "burn_in" => (n_sample = it /\ it <= burn_in /\ dags = <<>>)
          /\ pc = "sampling" => (n_sample = burn_in + it /\ it <= iterations)
          /\ pc = "done" => n_sample = burn_in + iterations)
    /\ [][/\ n_sample' # n_sample =>
               /\ n_sample' = n_sample + 1
               /\ pc \in {"burn_in", "sampling"}
               /\ pc' # "raised" => (pc' = pc /\ it' = it + 1)
          /\ (pc \in {"burn_in", "sampling"} /\ pc' = pc) =>
               (n_sample' = n_sample + 1 /\ it' = it + 1)
          /\ dags' # dags =>
               /\ n_sample' = n_sample + 1
               /\ pc = "sampling"
               /\ dags' = Append(dags, dags'[Len(dags')])
               /\ dag_scores' = Append(dag_scores, dag_scores'[Len(dag_scores')])
               /\ \E o \in Score_sample_DAG(R_cur') :
                     /\ o.raised = "None"
                     /\ o.DAG = dags'[Len(dags')]
                     /\ o.DAG_score = dag_scores'[Len(dag_scores')]]_vars

\* A finished run with burn-in, thinned sampling and both sampler states
\* emitted.
C10_Witness ==
    /\ pc = "done"
    /\ burn_in >= 1 /\ iterations >= 3 /\ thinning >= 2
    /\ n_sample = burn_in + iterations
    /\ Len(dags) >= 2
    /\ dags[1] # dags[2]

----------------------------------------------------------------------------
(* Properties of the per-variable steps of Score.sample_DAG, under         *)
(* SpecScore.                                                              *)

\* The steps of the call in which sample_pset was called for v.
SamplePsetCallsFor(steps, v) ==
    {j \in 1 .. Len(steps) : steps[j].v = v /\ steps[j].op = "sample_pset"}

\* The cache operations of a step that sample a parent set.
SamplingOperations(step) ==
    {j \in 1 .. Len(step.cr_calls) : step.cr_calls[j].op = "sample_pset"}
      \cup {Len(step.cr_calls) + j : j \in
              {k \in 1 .. Len(step.cc_calls) : step.cc_calls[k].op = "sample_pset"}}

\* C11: sample_DAG(R) on a valid ordered partition finishes without an error
\* after one step per variable 0..n-1, in order.  For v in block 0 the step
\* assigns the empty parent set with the score sum(v, {}, {}) and sample_pset is
\* not called for v; for v in block i > 0 sample_pset is called exactly once,
\* with U the union of the blocks before i and T the block i-1, and the family
\* and score of v are what that call returned.  For R = ({0},{1,2}): node 0
\* gets no parents, nodes 1 and 2 are drawn with U = {0} and T = {0}.
C11_PerNodeStep ==
    (pc = "returned" /\ call.op = "sample_DAG") =>
        LET R == call.R
            steps == call.out.steps
        IN /\ call.out.raised = "None"
           /\ Len(steps) = n
           /\ \A j \in 1 .. Len(steps) :
                 LET v == j - 1
                     i == BlockOf(R, v)
                     step == steps[j]
                 IN /\ step.v = v /\ step.i = i
                    /\ IF i = 0
                       THEN /\ step.op = "sum"
                            /\ step.U = {} /\ step.T = {}
                            /\ step.family = [v |-> v, pset |-> {}]
                            /\ step.family_score = Score_sum(v, {}, {}).ret
                            /\ SamplePsetCallsFor(steps, v) = {}
                            /\ SamplingOperations(step) = {}
                       ELSE /\ step.op = "sample_pset"
                            /\ step.U = UNION {At(R, k) : k \in 0 .. (i - 1)}
                            /\ step.T = At(R, i - 1)
                            /\ SamplePsetCallsFor(steps, v) = {j}
                            /\ Cardinality(SamplingOperations(step)) = 1
                            /\ \E o \in Score_sample_pset(v, step.U, step.T) :
                                  /\ o.raised = "None"
                                  /\ o.family = step.family
                                  /\ o.family_score = step.family_score
           /\ (n = 3 /\ R = <<{0}, {1, 2}>>) =>
                 /\ steps[1].op = "sum" /\ steps[1].family.pset = {}
                 /\ \A j \in 2 .. 3 :
                       /\ steps[j].op = "sample_pset"
                       /\ steps[j].U = {0} /\ steps[j].T = {0}
                       /\ 0 \in steps[j].family.pset

\* A DAG returned for a partition of three blocks: the node of the last block
\* was drawn with a U larger than its T, the node of the first block was not
\* drawn at all.
C11_Witness ==
    /\ ReturnedDAG
    /\ n = 3 /\ Len(call.R) = 3
    /\ \E j \in 1 .. Len(call.out.steps) :
          /\ call.out.steps[j].i = 2
          /\ call.out.steps[j].op = "sample_pset"
          /\ Cardinality(call.out.steps[j].U) = 2
          /\ Cardinality(call.out.steps[j].T) = 1
    /\ \E j \in 1 .. Len(call.out.steps) :
          call.out.steps[j].i = 0 /\ call.out.steps[j].op = "sum"

----------------------------------------------------------------------------
(* Properties of Score.sum and Score.sample_pset for a T outside C[v],     *)
(* under SpecScore.                                                        *)

\* The parent sets of v in the complement cache's range for (U, T): inside U,
\* of at most d members, not inside C[v], meeting T.
ComplementRange(v, U, T) ==
    {P \in SUBSET (U \ {v}) :
        /\ Cardinality(P) <= d
        /\ ~(P \subseteq Elems(At(C, v)))
        /\ P \cap T # {}}

\* Every value np.random.exponential() can return as a float, 0.0 and the
\* overflow to +inf included.
FloatDraws == {Fin(e) : e \in 0 .. (MaxE + 1)} \cup {PosInf}

\* What C12 says of one sample_pset outcome o for (v, U, T).
MissedTSample(v, U, T, o) ==
    /\ o.raised = "None"
    /\ o.w_crs = NegInf
    /\ o.cr_calls = <<>>
    /\ o.branch = "complement"
    /\ \A E \in FloatDraws : ~sample_pset_from_candidates(E, o.w_crs, o.w_ccs)
    /\ o.cc_calls = <<CcCall("sum", v, U, T), CcCall("sample_pset", v, U, T)>>
    /\ o.family.pset \in ComplementRange(v, U, T)
    /\ o.family_score = Fin(LocalScore_local_unchecked(v, o.family.pset))

\* C12: when T is not empty and has no member in C[v], sum and sample_pset
\* take the restricted weight to be -inf and do not query the restricted cache
\* (the unconstrained restricted sum never enters the result: sum returns the
\* complement weight alone); sample_pset then takes the complement branch for
\* every exponential variate, and the parent set it returns is one the
\* complement cache sampled: inside U, not inside C[v], meeting T.  The same
\* holds of the sample_pset calls sample_DAG makes.
C12_MissedT ==
    /\ (ReturnedSum /\ TMissesC(call.v, call.T)) =>
          /\ call.out.cr_calls = <<>>
          /\ sum_W_prime(call.v, call.U, call.T).w = NegInf
          /\ call.out.cc_calls = <<CcCall("sum", call.v, call.U, call.T)>>
          /\ call.out.ret = WeightInComplement(call.v, call.U, call.T)
    /\ (ReturnedSamplePset /\ TMissesC(call.v, call.T)) =>
          MissedTSample(call.v, call.U, call.T, call.out)
    /\ (pc = "returned" /\ call.op = "sample_DAG") =>
          \A j \in 1 .. Len(call.out.steps) :
             LET step == call.out.steps[j]
             IN (step.op = "sample_pset" /\ TMissesC(step.v, step.T)) =>
                   /\ step.cr_calls = <<>>
                   /\ step.cc_calls = <<CcCall("sum", step.v, step.U, step.T),
                                        CcCall("sample_pset", step.v, step.U, step.T)>>
                   /\ step.family.pset \in ComplementRange(step.v, step.U, step.T)

\* sample_pset returned for a T that misses C[v] while U has a member in C[v]
\* (the unconstrained restricted sum is finite): the parent set came from the
\* complement cache and holds a candidate parent too.
C12_Witness ==
    /\ ReturnedSamplePset
    /\ TMissesC(call.v, call.T)
    /\ call.U \cap Elems(At(C, call.v)) # {}
    /\ call.out.branch = "complement"
    /\ call.out.w_ccs.k = "fin"
    /\ call.out.family.pset \cap Elems(At(C, call.v)) # {}

====
